---- MODULE Spec2Model ----
(***************************************************************************)
(* Alert delivery pipeline of backend/isuite.py: the process-wide OAuth2   *)
(* token cache, token acquisition (obtener_token_oauth2), cache            *)
(* invalidation and the delivery run (enviar_aviso_a_isuite) with its      *)
(* single retry after an HTTP 401.                                         *)
(***************************************************************************)
EXTENDS Integers, Sequences, FiniteSets, TLC

VARIABLES
    cache,          \* _token_cache: access_token, expires_at, token_type
    now,            \* time.time(), in seconds
    env,            \* the configuration keys whose environment variable is set
    pc,             \* position of the delivery run
    aviso,          \* the argument aviso_json of the current delivery run
    intento,        \* loop index of the delivery loop
    access_token,   \* local access_token, carried in headers['Authorization']
    resultado,      \* the dict resultado of the delivery run
    posts,          \* outcomes of the delivery POSTs of the current run
    log,            \* network calls and cache operations of the current operation
    ret,            \* the last direct call of obtener_token_oauth2 and its outcome
    acquired,       \* when and with which lifetime the cached token was granted
    config,         \* AVISOS_CONFIG, the rule catalog of backend/avisos.py
    clima,          \* the argument condiciones_clima of generar_avisos
    marwis,         \* what get_latest_marwis_data returns to generar_avisos
    batch,          \* the dict generar_avisos returned
    apc,            \* position of the caller of generar_avisos
    tpc,            \* position of each concurrent caller of the token functions
    forzado,        \* the argument force_refresh of each concurrent caller
    token_data,     \* the values each concurrent caller is about to store
    visto,          \* the cache fields is_valid read for each concurrent caller
    grants,         \* the token and expiry of every acquisition so far
    devuelto,       \* what the last call of each concurrent caller returned
    entrada,        \* the argument aviso_json of mapear_aviso_a_payload_isuite
    payload,        \* the payload mapear_aviso_a_payload_isuite returned
    mpc             \* position of the caller of mapear_aviso_a_payload_isuite

isuite_vars == <<cache, now, env, pc, aviso, intento, access_token, resultado, posts, log,
                 ret, acquired>>

avisos_vars == <<config, clima, marwis, batch, apc>>

conc_vars == <<tpc, forzado, token_data, visto, grants, devuelto>>

mapeo_vars == <<entrada, payload, mpc>>

vars == <<isuite_vars, avisos_vars, conc_vars, mapeo_vars>>

-----------------------------------------------------------------------------
(* Program constants *)

TOKEN_EXPIRY_MARGIN == 60

DEFAULT_EXPIRES_IN == 3600

\* Variant: one more attempt.
max_retries_plus_one == 2 + 1

max_retries == 2

(* Bounds of the model *)

MaxJumps == 1

MaxFineTicks == 2

-----------------------------------------------------------------------------
(* Values *)

None == "None"

Tokens == {"tokA", "tokB"}

ConfigKeys == {"oauth_token_url", "oauth_client_id", "oauth_client_secret", "iflow_url"}

\* The environments considered: complete, one value missing, nothing set.
Environments == {ConfigKeys} \cup {ConfigKeys \ {k} : k \in ConfigKeys} \cup {{}}

\* The clock advances by one second or jumps to one second before the
\* default lifetime minus the safety margin has elapsed.
LongStep == DEFAULT_EXPIRES_IN - TOKEN_EXPIRY_MARGIN - 1

MaxClock == MaxJumps * LongStep + MaxFineTicks

\* Answers of the token endpoint to one request.
\*   ok        HTTP 200, a JSON object with a non-empty access_token
\*   http      a status other than 200
\*   no_token  HTTP 200, a JSON object without (or with an empty) access_token
\*   malformed HTTP 200, JSON that is no object, or a non-numeric expires_in
\*   timeout / conn / reqexc   the exceptions of the HTTP client
\* expires_in is <<>> when the response omits the field and <<n>> when it
\* declares n seconds; token_type is None when the response omits it.
OkResponses ==
    { [kind |-> "ok", token |-> "tokA", expires_in |-> <<>>, token_type |-> None],
      [kind |-> "ok", token |-> "tokB", expires_in |-> <<>>, token_type |-> "MAC"],
      [kind |-> "ok", token |-> "tokB", expires_in |-> <<TOKEN_EXPIRY_MARGIN>>, token_type |-> None] }

TokenResponses ==
    OkResponses
    \cup [kind : {"http", "no_token", "malformed", "timeout", "conn", "reqexc"},
          token : {None}, expires_in : {<<>>}, token_type : {None}]

StatusCodes == {200, 201, 202, 204, 401, 403, 404, 500}

BodyKinds == {"json", "text", "empty"}

\* Outcomes of one delivery POST (status 0: no response was received).
DeliveryOutcomes ==
    [kind : {"http"}, status : StatusCodes, body : BodyKinds]
    \cup [kind : {"timeout", "conn", "reqexc"}, status : {0}, body : {"empty"}]

\* Arguments of enviar_aviso_a_isuite.
\*   none        None or an empty dict
\*   not_dict    a non-empty value that is no dict
\*   empty_batch a batch whose avisos_generados is empty or absent
\*   batch       a batch with alerts
\*   bad_batch   a dict whose avisos_generados holds entries that are no dicts
AvisoInputs == {"none", "not_dict", "empty_batch", "batch", "bad_batch"}

-----------------------------------------------------------------------------
(* TokenCache *)

EmptyCache == [access_token |-> None, expires_at |-> 0, token_type |-> "Bearer"]

is_valid(c, t) ==
    IF c.access_token = None
    THEN FALSE
    ELSE t < c.expires_at - TOKEN_EXPIRY_MARGIN

clear(c) == [c EXCEPT !.access_token = None, !.expires_at = 0]

invalidar_token_cache(c) == clear(c)

-----------------------------------------------------------------------------
(* Configuration *)

\* Variant: the delivery URL is not among the values checked.
variables_faltantes_oauth_only(e) == (ConfigKeys \ {"iflow_url"}) \ e

variables_faltantes(e) == ConfigKeys \ e

\* TRUE when obtener_configuracion raises ConfigurationError.
obtener_configuracion_raises(e) == variables_faltantes(e) # {}

-----------------------------------------------------------------------------
(* obtener_token_oauth2(force_refresh), given the answer resp the token     *)
(* endpoint would give: the cache afterwards, the exception raised (None   *)
(* when it returns), the token returned, whether a request was issued.     *)

TokenResult(c, exc, token, requested) ==
    [cache |-> c, exc |-> exc, token |-> token, requested |-> requested]

expires_in_of(resp) ==
    IF resp.expires_in = <<>> THEN DEFAULT_EXPIRES_IN ELSE resp.expires_in[1]

\* Variant: force_refresh is ignored.
cache_hit_ignoring_force(c, t, force_refresh) == is_valid(c, t)

cache_hit(c, t, force_refresh) == ~force_refresh /\ is_valid(c, t)

\* Variant: the lifetime is stored as if it were the expiry instant.
update_cache_relative_expiry(c, t, resp) ==
    [access_token |-> resp.token,
     expires_at   |-> expires_in_of(resp),
     token_type   |-> IF resp.token_type = None THEN "Bearer" ELSE resp.token_type]

\* Variant: the safety margin is already taken off the stored expiry.
update_cache_less_margin(c, t, resp) ==
    [access_token |-> resp.token,
     expires_at   |-> t + expires_in_of(resp) - TOKEN_EXPIRY_MARGIN,
     token_type   |-> IF resp.token_type = None THEN "Bearer" ELSE resp.token_type]

update_cache(c, t, resp) ==
    [access_token |-> resp.token,
     expires_at   |-> t + expires_in_of(resp),
     token_type   |-> IF resp.token_type = None THEN "Bearer" ELSE resp.token_type]

\* Variant: the token is stored before the response is checked for one.
request_token_store_first(c, t, resp) ==
    CASE resp.kind = "ok"        -> TokenResult(update_cache(c, t, resp), None, resp.token, TRUE)
      [] resp.kind = "malformed" -> TokenResult(c, "Uncaught", None, TRUE)
      [] resp.kind = "no_token"  ->
            TokenResult([c EXCEPT !.access_token = None], "OAuthTokenError", None, TRUE)
      [] OTHER                   -> TokenResult(c, "OAuthTokenError", None, TRUE)

request_token(c, t, resp) ==
    CASE resp.kind = "ok"        -> TokenResult(update_cache(c, t, resp), None, resp.token, TRUE)
      [] resp.kind = "malformed" -> TokenResult(c, "Uncaught", None, TRUE)
      [] OTHER                   -> TokenResult(c, "OAuthTokenError", None, TRUE)

obtener_token_oauth2(c, t, e, force_refresh, resp) ==
    IF cache_hit(c, t, force_refresh)
    THEN TokenResult(c, None, c.access_token, FALSE)
    ELSE IF obtener_configuracion_raises(e)
         THEN TokenResult(c, "ConfigurationError", None, FALSE)
         ELSE request_token(c, t, resp)

-----------------------------------------------------------------------------
(* backend/avisos.py: the rule catalog *)

RuleIds == {"AVISO_0", "AVISO_1", "AVISO_2", "AVISO_3", "AVISO_4", "AVISO_5", "AVISO_6"}

\* The thresholds shared by AVISO_3 .. AVISO_6.
condiciones_base ==
    [temp_ambiente_max |-> 0, temp_rocio_diferencia |-> -1, temp_pista_max |-> 0,
     humedad_min |-> 63, viento_max |-> 33]

\* AVISOS_CONFIG as the module defines it: per rule the SAP description,
\* priority code and failure-mode code, and the nested dict 'condiciones'.
AVISOS_CONFIG ==
    [id \in RuleIds |->
        CASE id = "AVISO_0" ->
                [QMTXT |-> "Temperatura Bajo Cero - Riesgo Critico de Hielo", PRIOK |-> "1", QMCOD |-> "Y116",
                 condiciones |-> [temp_ambiente_max |-> 0, viento_max |-> 100]]
          [] id = "AVISO_1" ->
                [QMTXT |-> "Umbral de Alerta", PRIOK |-> "2", QMCOD |-> "Y110",
                 condiciones |-> [temp_ambiente_min |-> 3, temp_ambiente_max |-> 6,
                                  temp_rocio_diferencia |-> -3, temp_pista_max |-> 0,
                                  humedad_min |-> 56, viento_max |-> 36]]
          [] id = "AVISO_2" ->
                [QMTXT |-> "Umbral de Contingencia", PRIOK |-> "1", QMCOD |-> "Y111",
                 condiciones |-> [temp_ambiente_min |-> -50, temp_ambiente_max |-> 3,
                                  temp_rocio_diferencia |-> -1, temp_pista_max |-> 0,
                                  humedad_min |-> 40, viento_max |-> 50]]
          [] id = "AVISO_3" ->
                [QMTXT |-> "Alerta de cambio de condiciones meteorologicas", PRIOK |-> "2",
                 QMCOD |-> "Y112",
                 condiciones |-> condiciones_base]
          [] id = "AVISO_4" ->
                [QMTXT |-> "Alerta de hielo", PRIOK |-> "1", QMCOD |-> "Y113",
                 condiciones |-> condiciones_base]
          [] id = "AVISO_5" ->
                [QMTXT |-> "Alerta de lluvia", PRIOK |-> "2", QMCOD |-> "Y114",
                 condiciones |-> condiciones_base]
          [] OTHER ->
                [QMTXT |-> "Alerta de nieve", PRIOK |-> "1", QMCOD |-> "Y115",
                 condiciones |-> condiciones_base]]

\* config['surface_condition'] of AVISO_4.
surface_condition_humeda == {"WET", "DAMP"}

-----------------------------------------------------------------------------
(* Values of a snapshot field: a number, the key absent, null, or a string *)

Num(n) == [k |-> "num", v |-> n]

Absent == [k |-> "absent", v |-> 0]

Null == [k |-> "null", v |-> 0]

Str == [k |-> "str", v |-> 0]

\* dict.get(key, default): the default only when the key is absent.
get(x, default) == IF x.k = "absent" THEN Num(default) ELSE x

\* Outcome of evaluating an expression: "T", "F", or "E" when it raises.
B(b) == IF b THEN "T" ELSE "F"

\* x < n, x <= n, x >= n, x > n for a field x and a number n: comparing null
\* or a string with a number raises TypeError.
lt(x, n) == IF x.k = "num" THEN B(x.v < n) ELSE "E"

le(x, n) == IF x.k = "num" THEN B(x.v <= n) ELSE "E"

ge(x, n) == IF x.k = "num" THEN B(x.v >= n) ELSE "E"

gt(x, n) == IF x.k = "num" THEN B(x.v > n) ELSE "E"

\* temp_rocio >= (temp_amb + diferencia)
rocio_ge(temp_rocio, temp_amb, diferencia) ==
    IF temp_amb.k = "num" /\ temp_rocio.k = "num"
    THEN B(temp_rocio.v >= temp_amb.v + diferencia)
    ELSE "E"

\* a and b and ...: the first operand that is not true decides.
and_then(ops) ==
    LET bad == {i \in 1..Len(ops) : ops[i] # "T"} IN
    IF bad = {} THEN "T" ELSE ops[CHOOSE i \in bad : \A j \in bad : i <= j]

\* try: return cumple / except Exception: return False
try_bool(outcome) == outcome = "T"

-----------------------------------------------------------------------------
(* The rule predicates: what the body of each evaluar_condiciones_aviso_N   *)
(* yields ("T", "F" or "E") for the catalog cfg, the snapshot c and the    *)
(* sensor input m, and the function itself.                                *)

not_a_dict(c) == ~c.es_dict

\* Variant: an absent wind counts as 999, as in the other rules.
cuerpo_aviso_0_viento_999(cfg, c) ==
    IF not_a_dict(c) THEN "E"
    ELSE LET cond     == cfg["AVISO_0"].condiciones
             temp_amb == get(c.temperatura_actual, 999)
             v0       == get(c.viento, 999)
             viento   == IF v0.k = "str" THEN Num(0) ELSE v0
         IN and_then(<<lt(temp_amb, cond.temp_ambiente_max),
                       lt(viento, cond.viento_max)>>)

cuerpo_aviso_0(cfg, c) ==
    IF not_a_dict(c) THEN "E"
    ELSE LET cond     == cfg["AVISO_0"].condiciones
             temp_amb == get(c.temperatura_actual, 999)
             v0       == get(c.viento, 0)
             viento   == IF v0.k = "str" THEN Num(0) ELSE v0
         IN and_then(<<lt(temp_amb, cond.temp_ambiente_max),
                       lt(viento, cond.viento_max)>>)

evaluar_condiciones_aviso_0(cfg, c) == try_bool(cuerpo_aviso_0(cfg, c))

\* The five conjuncts AVISO_2 .. AVISO_6 share, after their first one.
comunes(cond, c) ==
    <<rocio_ge(get(c.punto_rocio, 999), get(c.temperatura_actual, 999),
               cond.temp_rocio_diferencia),
      lt(get(c.temperatura_pista, 999), cond.temp_pista_max),
      ge(get(c.humedad, 0), cond.humedad_min),
      lt(get(c.viento, 999), cond.viento_max)>>

\* Variant: min <= temp_amb <= max
en_rango_abierto_con_min(x, min, max) ==
    IF x.k = "num" THEN B(min <= x.v /\ x.v <= max) ELSE "E"

\* Variant: min < temp_amb < max
en_rango_abierto_sin_max(x, min, max) ==
    IF x.k = "num" THEN B(min < x.v /\ x.v < max) ELSE "E"

\* min < temp_amb <= max
en_rango_abierto(x, min, max) ==
    IF x.k = "num" THEN B(min < x.v /\ x.v <= max) ELSE "E"

\* Variant: min < temp_amb <= max
en_rango_cerrado_sin_min(x, min, max) ==
    IF x.k = "num" THEN B(min < x.v /\ x.v <= max) ELSE "E"

\* min <= temp_amb <= max
en_rango_cerrado(x, min, max) ==
    IF x.k = "num" THEN B(min <= x.v /\ x.v <= max) ELSE "E"

cuerpo_aviso_1(cfg, c) ==
    IF not_a_dict(c) THEN "E"
    ELSE LET cond == cfg["AVISO_1"].condiciones IN
         and_then(<<en_rango_abierto(get(c.temperatura_actual, 999),
                                     cond.temp_ambiente_min, cond.temp_ambiente_max)>>
                  \o comunes(cond, c))

evaluar_condiciones_aviso_1(cfg, c) == try_bool(cuerpo_aviso_1(cfg, c))

cuerpo_aviso_2(cfg, c) ==
    IF not_a_dict(c) THEN "E"
    ELSE LET cond == cfg["AVISO_2"].condiciones IN
         and_then(<<en_rango_cerrado(get(c.temperatura_actual, 999),
                                     cond.temp_ambiente_min, cond.temp_ambiente_max)>>
                  \o comunes(cond, c))

evaluar_condiciones_aviso_2(cfg, c) == try_bool(cuerpo_aviso_2(cfg, c))

\* Variant: marwis_data is None or marwis_data.get('measurements')
sin_lectura_marwis_sin_not(m) == m.k = "none" \/ m.measurements # <<>>

\* marwis_data is None or not marwis_data.get('measurements')
sin_lectura_marwis(m) == m.k = "none" \/ m.measurements = <<>>

cuerpo_aviso_3(cfg, c, m) ==
    IF not_a_dict(c) THEN "E"
    ELSE LET cond == cfg["AVISO_3"].condiciones IN
         and_then(<<le(get(c.temperatura_actual, 999), cond.temp_ambiente_max)>>
                  \o comunes(cond, c)
                  \o <<B(sin_lectura_marwis(m))>>)

evaluar_condiciones_aviso_3(cfg, c, m) == try_bool(cuerpo_aviso_3(cfg, c, m))

\* str.upper() on the values a measurement carries.
upper(v) ==
    CASE v = "wet"  -> "WET"
      [] v = "damp" -> "DAMP"
      [] v = "dry"  -> "DRY"
      [] OTHER      -> v

\* The measurements whose channel name contains 'surface'.
canales_surface(m) ==
    {i \in 1..Len(m.measurements) : m.measurements[i].channel = "surface"}

\* The loop over the measurements: the Value of the first surface channel,
\* upper-cased; None when there is none; "E" when that Value is null.
surface_condition(m) ==
    IF m.k = "none" \/ canales_surface(m) = {}
    THEN None
    ELSE LET i == CHOOSE i \in canales_surface(m) : \A j \in canales_surface(m) : i <= j
             v == m.measurements[i].value
         IN IF v = "null" THEN "E" ELSE upper(v)

cuerpo_aviso_4(cfg, c, m) ==
    IF not_a_dict(c) \/ surface_condition(m) = "E" THEN "E"
    ELSE LET cond == cfg["AVISO_4"].condiciones
             superficie_humeda == surface_condition(m) \in surface_condition_humeda
         IN and_then(<<le(get(c.temperatura_actual, 999), cond.temp_ambiente_max)>>
                     \o comunes(cond, c)
                     \o <<B(superficie_humeda)>>)

evaluar_condiciones_aviso_4(cfg, c, m) == try_bool(cuerpo_aviso_4(cfg, c, m))

\* pronostico = condiciones_clima.get('pronostico', {}); pronostico.get(key, 0)
prob(c, key) ==
    CASE c.pronostico.k = "absent" -> Num(0)
      [] c.pronostico.k = "null"   -> Null
      [] OTHER                     -> get(c.pronostico[key], 0)

cuerpo_aviso_5(cfg, c) ==
    IF not_a_dict(c) \/ c.pronostico.k = "null" THEN "E"
    ELSE LET cond == cfg["AVISO_5"].condiciones IN
         and_then(<<le(get(c.temperatura_actual, 999), cond.temp_ambiente_max)>>
                  \o comunes(cond, c)
                  \o <<gt(prob(c, "prob_lluvia"), 50)>>)

evaluar_condiciones_aviso_5(cfg, c) == try_bool(cuerpo_aviso_5(cfg, c))

cuerpo_aviso_6(cfg, c) ==
    IF not_a_dict(c) \/ c.pronostico.k = "null" THEN "E"
    ELSE LET cond == cfg["AVISO_6"].condiciones IN
         and_then(<<le(get(c.temperatura_actual, 999), cond.temp_ambiente_max)>>
                  \o comunes(cond, c)
                  \o <<gt(prob(c, "prob_nieve"), 30)>>)

evaluar_condiciones_aviso_6(cfg, c) == try_bool(cuerpo_aviso_6(cfg, c))

\* The predicate of rule id.
evaluar(id, cfg, c, m) ==
    CASE id = "AVISO_0" -> evaluar_condiciones_aviso_0(cfg, c)
      [] id = "AVISO_1" -> evaluar_condiciones_aviso_1(cfg, c)
      [] id = "AVISO_2" -> evaluar_condiciones_aviso_2(cfg, c)
      [] id = "AVISO_3" -> evaluar_condiciones_aviso_3(cfg, c, m)
      [] id = "AVISO_4" -> evaluar_condiciones_aviso_4(cfg, c, m)
      [] id = "AVISO_5" -> evaluar_condiciones_aviso_5(cfg, c)
      [] OTHER          -> evaluar_condiciones_aviso_6(cfg, c)

-----------------------------------------------------------------------------
(* generar_avisos *)

\* Variant: the block of AVISO_6 stands a second time in the place of AVISO_5.
orden_evaluacion_bloque_repetido ==
    <<"AVISO_0", "AVISO_6", "AVISO_6", "AVISO_4", "AVISO_3", "AVISO_2", "AVISO_1">>

\* The rules in the order generar_avisos evaluates them; the priority it
\* assigns to the k-th of them is k - 1.
orden_evaluacion ==
    <<"AVISO_0", "AVISO_6", "AVISO_5", "AVISO_4", "AVISO_3", "AVISO_2", "AVISO_1">>

\* AVISOS_CONFIG[id].copy() with tipo, prioridad and fecha_generacion set:
\* the top-level entries are the alert's own, 'condiciones' is the nested
\* dict of the catalog itself (condiciones_de names the rule it belongs to).
nuevo_aviso(cfg, k, t) ==
    LET id == orden_evaluacion[k] IN
    [tipo |-> id, prioridad |-> k - 1, fecha_generacion |-> t,
     QMTXT |-> cfg[id].QMTXT, PRIOK |-> cfg[id].PRIOK, QMCOD |-> cfg[id].QMCOD,
     tareas_procedimiento |-> FALSE, condiciones_de |-> id]

\* What the body of the predicate of rule id yields: "T", "F", or "E" when a
\* statement of it raises.
cuerpo(id, cfg, c, m) ==
    CASE id = "AVISO_0" -> cuerpo_aviso_0(cfg, c)
      [] id = "AVISO_1" -> cuerpo_aviso_1(cfg, c)
      [] id = "AVISO_2" -> cuerpo_aviso_2(cfg, c)
      [] id = "AVISO_3" -> cuerpo_aviso_3(cfg, c, m)
      [] id = "AVISO_4" -> cuerpo_aviso_4(cfg, c, m)
      [] id = "AVISO_5" -> cuerpo_aviso_5(cfg, c)
      [] OTHER          -> cuerpo_aviso_6(cfg, c)

\* Variant: the predicates have no try / except of their own; an exception
\* in one of them reaches the except clause of generar_avisos, which
\* returns the empty list.
RECURSIVE agregados_sin_try_por_regla(_, _, _, _, _)
agregados_sin_try_por_regla(cfg, c, m, t, k) ==
    IF \E j \in 1..Len(orden_evaluacion) : cuerpo(orden_evaluacion[j], cfg, c, m) = "E"
    THEN <<>>
    ELSE IF k = 0 THEN <<>>
    ELSE LET antes == agregados_sin_try_por_regla(cfg, c, m, t, k - 1) IN
         IF cuerpo(orden_evaluacion[k], cfg, c, m) = "T"
         THEN Append(antes, nuevo_aviso(cfg, k, t))
         ELSE antes

\* Variant: an if / elif chain, only the first rule that matches is appended.
RECURSIVE agregados_primera_coincidencia(_, _, _, _, _)
agregados_primera_coincidencia(cfg, c, m, t, k) ==
    IF k = 0 THEN <<>>
    ELSE LET antes == agregados_primera_coincidencia(cfg, c, m, t, k - 1) IN
         IF antes = <<>> /\ evaluar(orden_evaluacion[k], cfg, c, m)
         THEN <<nuevo_aviso(cfg, k, t)>>
         ELSE antes

\* The alerts appended one after the other, for the first k rules.
RECURSIVE agregados(_, _, _, _, _)
agregados(cfg, c, m, t, k) ==
    IF k = 0 THEN <<>>
    ELSE LET antes == agregados(cfg, c, m, t, k - 1) IN
         IF evaluar(orden_evaluacion[k], cfg, c, m)
         THEN Append(antes, nuevo_aviso(cfg, k, t))
         ELSE antes

\* Insertion of alert a into the sorted list l, after the entries with the
\* same or a smaller prioridad.
RECURSIVE insertar(_, _)
insertar(l, a) ==
    IF l = <<>> THEN <<a>>
    ELSE IF l[Len(l)].prioridad <= a.prioridad
         THEN Append(l, a)
         ELSE Append(insertar(SubSeq(l, 1, Len(l) - 1), a), l[Len(l)])

\* Variant: the list is sorted with the highest prioridad first.
RECURSIVE ordenar_descendente(_)
ordenar_descendente(l) ==
    IF l = <<>> THEN <<>>
    ELSE <<l[Len(l)]>> \o ordenar_descendente(SubSeq(l, 1, Len(l) - 1))

\* avisos_generados.sort(key=lambda x: x['prioridad']), a stable sort.
RECURSIVE ordenar(_)
ordenar(l) ==
    IF l = <<>> THEN <<>>
    ELSE insertar(ordenar(SubSeq(l, 1, Len(l) - 1)), l[Len(l)])

generar_avisos(cfg, c, m, t) ==
    LET avisos_generados == ordenar(agregados(cfg, c, m, t, Len(orden_evaluacion))) IN
    [avisos_generados |-> avisos_generados,
     total_avisos     |-> Len(avisos_generados),
     fecha_evaluacion |-> t]

-----------------------------------------------------------------------------
(* mapear_aviso_a_payload_isuite *)

\* The nine SAP PM routing codes of an alert.
Codes == {"QMART", "QMTXT", "TPLNR", "SWERK", "INGRP", "GEWRK", "PRIOK", "QMGRP", "QMCOD"}

\* The entry of a dict under a key: the key is absent, or it holds null
\* (None), the empty string or another string.
KeyAbsent == "<absent>"

\* The alert AVISO_1 as the catalog defines it.
aviso_de_catalogo ==
    [QMART |-> "O1", QMTXT |-> "Umbral de Alerta", TPLNR |-> "RGA-INF-PAVIM",
     SWERK |-> "RGA", INGRP |-> "OPE", GEWRK |-> "ADM_AD", PRIOK |-> "2",
     QMGRP |-> "YB-DERR1", QMCOD |-> "Y110", tipo |-> "AVISO_1"]

\* An alert without any routing code.
aviso_sin_codigos == [k \in Codes \cup {"tipo"} |-> IF k = "tipo" THEN "AVISO_0" ELSE KeyAbsent]

\* The alerts of the batches handed to the mapping: the catalog's alert, the
\* same with one code absent, null or empty, and the alert without codes.
AlertasEntrada ==
    {aviso_de_catalogo, aviso_sin_codigos}
    \cup {[aviso_de_catalogo EXCEPT ![c] = v] : c \in Codes, v \in {KeyAbsent, None, ""}}

\* The longest alert list handed to the mapping.
MaxAvisos == 2

\* aviso_json: a dict without the key 'avisos_generados', or with a list of
\* alerts under it.
SinAvisosGenerados == [tiene_avisos |-> FALSE, avisos_generados |-> <<>>]

Entradas ==
    {SinAvisosGenerados}
    \cup {[tiene_avisos |-> TRUE, avisos_generados |-> l] :
            l \in UNION {[1..n -> AlertasEntrada] : n \in 0..MaxAvisos}}

\* Variant: aviso.get(key), absent codes come out as None.
dget_sin_default(a, k) == IF a[k] = KeyAbsent THEN None ELSE a[k]

\* aviso.get(key, '')
dget(a, k) == IF a[k] = KeyAbsent THEN "" ELSE a[k]

\* The dict aviso_sap built from one alert.
aviso_sap(a) ==
    [k \in Codes \cup {"tipo_aviso"} |->
        IF k = "tipo_aviso" THEN dget(a, "tipo") ELSE dget(a, k)]

\* The payload: its header and one aviso_sap for each alert, appended in
\* the order of the list.
mapear_aviso_a_payload_isuite(aj) ==
    LET avisos_generados == IF aj.tiene_avisos THEN aj.avisos_generados ELSE <<>> IN
    [header |-> [source_system |-> "MVP1_SNOW", message_type |-> "AVISO_METEOROLOGICO",
                 version |-> "1.0"],
     avisos |-> [i \in 1..Len(avisos_generados) |-> aviso_sap(avisos_generados[i])]]

\* No payload was built yet.
SinPayload == mapear_aviso_a_payload_isuite(SinAvisosGenerados)

-----------------------------------------------------------------------------
(* State *)

\* resultado as initialised at the start of a run at time t (status_code 0
\* stands for None).
nuevo_resultado(t) ==
    [success |-> FALSE, status_code |-> 0, response_body |-> None,
     message |-> "", timestamp |-> t]

NoResult == nuevo_resultado(0)

\* A direct call: its argument, the cache and the time it found, the answer
\* of the token endpoint it got ("none" without a request), and its outcome.
NoRet == [exc |-> None, token |-> None, force |-> FALSE,
          before |-> EmptyCache, at |-> 0, kind |-> "none"]

\* No token was granted, or the cache was cleared since.
NoAcq == [at |-> 0, expires_in |-> 0]

\* The grant recorded after a call of obtener_token_oauth2 with outcome o.
granted(o, t, resp) ==
    IF o.requested /\ o.exc = None
    THEN [at |-> t, expires_in |-> expires_in_of(resp)]
    ELSE acquired

\* No batch was returned yet.
NoBatch == [avisos_generados |-> <<>>, total_avisos |-> 0, fecha_evaluacion |-> 0]

\* A weather snapshot that is a dict, with the given fields.
snapshot(t, r, p, h, v, pr) ==
    [es_dict |-> TRUE, temperatura_actual |-> t, punto_rocio |-> r,
     temperatura_pista |-> p, humedad |-> h, viento |-> v, pronostico |-> pr]

\* The key 'pronostico' absent, null, or a dict with the two probabilities.
SinPronostico == [k |-> "absent", prob_lluvia |-> Absent, prob_nieve |-> Absent]

PronosticoNull == [k |-> "null", prob_lluvia |-> Absent, prob_nieve |-> Absent]

pronostico(lluvia, nieve) == [k |-> "dict", prob_lluvia |-> lluvia, prob_nieve |-> nieve]

\* A snapshot that is not a dict (None, a list, a string).
NotADict ==
    [es_dict |-> FALSE, temperatura_actual |-> Absent, punto_rocio |-> Absent,
     temperatura_pista |-> Absent, humedad |-> Absent, viento |-> Absent,
     pronostico |-> SinPronostico]

Temperaturas ==
    {Absent, Null, Num(-51), Num(-50), Num(-5), Num(0), Num(3), Num(4), Num(6), Num(7)}

PuntosRocio == {Absent, Str, Num(-7), Num(-6), Num(1), Num(5)}

TemperaturasPista == {Absent, Num(-1), Num(0)}

Humedades == {Absent, Num(40), Num(55), Num(63)}

Vientos == {Absent, Str, Null, Num(20), Num(35), Num(100)}

Pronosticos ==
    {SinPronostico, PronosticoNull, pronostico(Num(50), Num(30)),
     pronostico(Num(51), Absent), pronostico(Absent, Num(31))}

\* ambient -5, humidity 90, wind 10, pavement -3, nothing else;
\* ambient 4, dew point 1, pavement -1, humidity 60, wind 20.
Examples ==
    {snapshot(Num(-5), Absent, Num(-3), Num(90), Num(10), SinPronostico),
     snapshot(Num(4), Num(1), Num(-1), Num(60), Num(20), SinPronostico)}

Snapshots ==
    {snapshot(t, r, p, h, v, pr) :
        t \in Temperaturas, r \in PuntosRocio, p \in TemperaturasPista,
        h \in Humedades, v \in Vientos, pr \in Pronosticos}
    \cup Examples \cup {NotADict}

\* What get_latest_marwis_data returns: None (no file, unreadable), or a dict
\* with its measurements, each a channel name and a Value. edad is the time
\* in minutes since the station delivered the content of the file; the
\* function returns the content whatever its age.
SinMarwis == [k |-> "none", measurements |-> <<>>, edad |-> 0]

\* A reading the station delivered minutos minutes ago.
lectura_de_hace(ms, minutos) == [k |-> "dict", measurements |-> ms, edad |-> minutos]

\* A reading the station has just delivered.
lectura(ms) == lectura_de_hace(ms, 0)

\* The windows of the two sensor rules, in minutes: 'sin_lectura_marwis_2h'
\* and 'marwis_ultimos_15min'.
VentanaSinLectura == 120

VentanaSuperficie == 15

\* Ages of a reading: inside both windows, between them, outside both.
Edades == {0, VentanaSuperficie + 15, VentanaSinLectura + 60}

MarwisInputs ==
    {SinMarwis,
     lectura(<<>>),
     lectura(<<[channel |-> "temperature", value |-> "dry"],
               [channel |-> "surface", value |-> "damp"]>>),
     lectura(<<[channel |-> "surface", value |-> "dry"],
               [channel |-> "surface", value |-> "WET"]>>),
     lectura(<<[channel |-> "surface", value |-> "WET"]>>),
     lectura(<<[channel |-> "surface", value |-> "null"]>>)}
    \cup {lectura_de_hace(<<[channel |-> "surface", value |-> "WET"]>>, e) : e \in Edades}

\* The concurrent callers of the token functions.
Threads == {"t1", "t2"}

\* The access token and expiry of a cache c.
par(c) == [access_token |-> c.access_token, expires_at |-> c.expires_at]

\* is_valid has read nothing for the caller.
NadaVisto == par(EmptyCache)

\* The caller's call has not returned: it is running, it raised, or it was a
\* call of invalidar_token_cache.
SinDevolver == "pending"

Running == pc \in {"token", "post", "refresh"}

\* No operation of backend/isuite.py has run.
IsuiteInicial ==
    /\ cache = EmptyCache
    /\ now = 0
    /\ pc = "idle"
    /\ aviso = "none"
    /\ intento = 0
    /\ access_token = None
    /\ resultado = NoResult
    /\ posts = <<>>
    /\ log = <<>>
    /\ ret = NoRet
    /\ acquired = NoAcq

\* The catalog as the module defines it, generar_avisos not yet called.
CatalogoInicial ==
    /\ config = AVISOS_CONFIG
    /\ batch = NoBatch
    /\ apc = "idle"

\* mapear_aviso_a_payload_isuite was not called.
MapeoInicial ==
    /\ entrada = SinAvisosGenerados
    /\ payload = SinPayload
    /\ mpc = "idle"

\* No concurrent caller has started.
ConcInicial ==
    /\ tpc = [t \in Threads |-> "idle"]
    /\ forzado = [t \in Threads |-> FALSE]
    /\ token_data = [t \in Threads |-> EmptyCache]
    /\ visto = [t \in Threads |-> NadaVisto]
    /\ grants = {}
    /\ devuelto = [t \in Threads |-> SinDevolver]

Init ==
    /\ IsuiteInicial
    /\ env \in Environments
    /\ CatalogoInicial
    /\ clima = NotADict
    /\ marwis = SinMarwis
    /\ ConcInicial
    /\ MapeoInicial

-----------------------------------------------------------------------------
(* The clock *)

\* No delivery run is in progress or remembered.
NoRun ==
    /\ aviso' = "none"
    /\ intento' = 0
    /\ access_token' = None
    /\ resultado' = NoResult
    /\ posts' = <<>>

TickSteps == {1, LongStep}

Tick(d) ==
    /\ now + d <= MaxClock
    /\ d = 1 => (now % LongStep) < MaxFineTicks
    /\ now' = now + d
    /\ UNCHANGED <<cache, env, pc, aviso, intento, access_token, resultado, posts, log, ret,
                   acquired>>
    /\ UNCHANGED <<avisos_vars, conc_vars, mapeo_vars>>

(* The environment variables change between operations. *)
SetEnv(e) ==
    /\ ~Running
    /\ e # env
    /\ env' = e
    /\ pc' = "idle"
    /\ NoRun
    /\ ret' = NoRet
    /\ log' = <<>>
    /\ UNCHANGED <<cache, now, acquired>>
    /\ UNCHANGED <<avisos_vars, conc_vars, mapeo_vars>>

-----------------------------------------------------------------------------
(* Direct calls of the token functions *)

token_event(o, force_refresh) ==
    IF o.requested
    THEN <<IF force_refresh THEN "req_forced" ELSE "req">>
    ELSE IF o.exc = None THEN <<"hit">> ELSE <<>>

ObtenerTokenCall(force_refresh, resp) ==
    /\ ~Running
    /\ LET o == obtener_token_oauth2(cache, now, env, force_refresh, resp) IN
        /\ cache' = o.cache
        /\ ret' = [exc |-> o.exc, token |-> o.token, force |-> force_refresh,
                   before |-> cache, at |-> now,
                   kind |-> IF o.requested THEN resp.kind ELSE "none"]
        /\ log' = token_event(o, force_refresh)
        /\ acquired' = granted(o, now, resp)
    /\ pc' = "token_done"
    /\ NoRun
    /\ UNCHANGED <<now, env>>
    /\ UNCHANGED <<avisos_vars, conc_vars, mapeo_vars>>

InvalidarTokenCacheCall ==
    /\ ~Running
    /\ cache' = invalidar_token_cache(cache)
    /\ acquired' = NoAcq
    /\ log' = <<"invalidate">>
    /\ pc' = "invalidated"
    /\ NoRun
    /\ ret' = NoRet
    /\ UNCHANGED <<now, env>>
    /\ UNCHANGED <<avisos_vars, conc_vars, mapeo_vars>>

-----------------------------------------------------------------------------
(* enviar_aviso_a_isuite *)

\* The run ends by returning resultado r.
Return(r) ==
    /\ resultado' = r
    /\ pc' = "done"

\* The run ends by an exception that no handler catches.
Raise ==
    /\ pc' = "raised"
    /\ UNCHANGED resultado

\* Entry: validation of the argument, the empty-batch short cut and the
\* configuration check, up to the first network call.
validar(a, e, r) ==
    CASE a = "none"     -> [r EXCEPT !.message = "Error: aviso_json esta vacio o es None"]
      [] a = "not_dict" -> [r EXCEPT !.message = "Error: aviso_json debe ser un dict"]
      [] a = "empty_batch" ->
            [r EXCEPT !.message = "No hay avisos generados para enviar",
                      !.success = TRUE, !.status_code = 200]
      [] obtener_configuracion_raises(e) ->
            [r EXCEPT !.message = "Error de configuracion"]
      [] OTHER -> r

\* Variant: the empty-batch short cut is missing.
sigue_without_short_cut(a, e) ==
    a \in {"empty_batch", "batch", "bad_batch"} /\ ~obtener_configuracion_raises(e)

\* TRUE when the entry goes on to the token acquisition.
sigue(a, e) == a \in {"batch", "bad_batch"} /\ ~obtener_configuracion_raises(e)

Enviar(a) ==
    /\ ~Running
    /\ aviso' = a
    /\ intento' = 0
    /\ access_token' = None
    /\ posts' = <<>>
    /\ log' = <<>>
    /\ resultado' = validar(a, env, nuevo_resultado(now))
    /\ pc' = IF sigue(a, env) THEN "token" ELSE "done"
    /\ ret' = NoRet
    /\ UNCHANGED <<cache, now, env, acquired>>
    /\ UNCHANGED <<avisos_vars, conc_vars, mapeo_vars>>

\* mapear_aviso_a_payload_isuite raises on entries that are no dicts.
mapear_raises(a) == a = "bad_batch"

\* First token acquisition, then the payload mapping.
ObtenerTokenStep(resp) ==
    /\ pc = "token"
    /\ LET o == obtener_token_oauth2(cache, now, env, FALSE, resp) IN
        /\ cache' = o.cache
        /\ log' = log \o token_event(o, FALSE)
        /\ acquired' = granted(o, now, resp)
        /\ CASE o.exc = "OAuthTokenError" ->
                    /\ Return([resultado EXCEPT !.message = "Error OAuth2"])
                    /\ UNCHANGED access_token
             [] o.exc = "ConfigurationError" ->
                    /\ Return([resultado EXCEPT !.message = "Error de configuracion OAuth2"])
                    /\ UNCHANGED access_token
             [] o.exc = "Uncaught" ->
                    /\ Raise
                    /\ UNCHANGED access_token
             [] OTHER ->
                    /\ access_token' = o.token
                    /\ IF mapear_raises(aviso)
                       THEN Return([resultado EXCEPT !.message = "Error mapeando aviso"])
                       ELSE /\ pc' = "post"
                            /\ UNCHANGED resultado
    /\ UNCHANGED <<now, env, aviso, intento, posts, ret>>
    /\ UNCHANGED <<avisos_vars, conc_vars, mapeo_vars>>

\* response.json(), else the text, else None.
parse_body(b) == IF b = "empty" THEN None ELSE b

\* The message for a response status other than a 401 that is retried.
mensaje_status(s) ==
    CASE s \in {200, 201, 202} -> "Aviso enviado exitosamente"
      [] s = 401               -> "Error de autenticacion persistente: HTTP 401"
      [] s = 403               -> "Error de autorizacion: HTTP 403"
      [] s >= 400 /\ s < 500   -> "Error del cliente"
      [] s >= 500              -> "Error del servidor SAP Integration Suite"
      [] OTHER                 -> "Respuesta inesperada"

mensaje_excepcion(k) ==
    CASE k = "timeout" -> "Timeout al llamar al iFlow"
      [] k = "conn"    -> "Error de conexion al iFlow"
      [] OTHER         -> "Error HTTP al llamar al iFlow"

\* Variant: 200 is missing from the list of delivered statuses.
es_exito_without_200(s) == s \in {201, 202}

\* Variant: every status below 400 counts as delivered.
es_exito_below_400(s) == s < 400

es_exito(s) == s \in {200, 201, 202}

\* Variant: a 403 is retried like a 401.
reintenta_auth_errors(s, i) == s \in {401, 403} /\ i < max_retries - 1

\* A 401 is retried while attempts are left.
reintenta(s, i) == s = 401 /\ i < max_retries - 1

\* One delivery POST and the evaluation of its outcome; on a 401 that is
\* retried the token cache is invalidated.
PostStep(out) ==
    /\ pc = "post"
    /\ posts' = Append(posts, [kind |-> out.kind, status |-> out.status, token |-> access_token])
    /\ IF out.kind = "http"
       THEN LET r == [resultado EXCEPT !.status_code = out.status,
                                       !.response_body = parse_body(out.body)] IN
            IF reintenta(out.status, intento)
            THEN /\ cache' = invalidar_token_cache(cache)
                 /\ acquired' = NoAcq
                 /\ log' = log \o <<"post", "invalidate">>
                 /\ resultado' = r
                 /\ pc' = "refresh"
            ELSE /\ Return([r EXCEPT !.success = es_exito(out.status),
                                     !.message = mensaje_status(out.status)])
                 /\ log' = Append(log, "post")
                 /\ UNCHANGED <<cache, acquired>>
       ELSE /\ Return([resultado EXCEPT !.message = mensaje_excepcion(out.kind)])
            /\ log' = Append(log, "post")
            /\ UNCHANGED <<cache, acquired>>
    /\ UNCHANGED <<now, env, aviso, intento, access_token, ret>>
    /\ UNCHANGED <<avisos_vars, conc_vars, mapeo_vars>>

\* After the invalidation: the forced token acquisition, then the next
\* iteration of the loop.
RenovarTokenStep(resp) ==
    /\ pc = "refresh"
    /\ LET o == obtener_token_oauth2(cache, now, env, TRUE, resp) IN
        /\ cache' = o.cache
        /\ log' = log \o token_event(o, TRUE)
        /\ acquired' = granted(o, now, resp)
        /\ CASE o.exc \in {"OAuthTokenError", "ConfigurationError"} ->
                    /\ Return([resultado EXCEPT !.message = "Error renovando token"])
                    /\ UNCHANGED <<access_token, intento>>
             [] o.exc = "Uncaught" ->
                    /\ Raise
                    /\ UNCHANGED <<access_token, intento>>
             [] OTHER ->
                    /\ access_token' = o.token
                    /\ intento' = intento + 1
                    /\ pc' = "post"
                    /\ UNCHANGED resultado
    /\ UNCHANGED <<now, env, aviso, posts, ret>>
    /\ UNCHANGED <<avisos_vars, conc_vars, mapeo_vars>>

-----------------------------------------------------------------------------

Next ==
    \/ \E d \in TickSteps : Tick(d)
    \/ \E e \in Environments : SetEnv(e)
    \/ \E f \in BOOLEAN, resp \in TokenResponses : ObtenerTokenCall(f, resp)
    \/ InvalidarTokenCacheCall
    \/ \E a \in AvisoInputs : Enviar(a)
    \/ \E resp \in TokenResponses : ObtenerTokenStep(resp)
    \/ \E out \in DeliveryOutcomes : PostStep(out)
    \/ \E resp \in TokenResponses : RenovarTokenStep(resp)

Spec == Init /\ [][Next]_vars

-----------------------------------------------------------------------------
(* generar_avisos, applied to the snapshot and the sensor file of the call *)

\* The call of generar_avisos(clima): it reads the sensor file, evaluates
\* the seven rules against the catalog and returns the sorted batch.
GenerarAvisos ==
    /\ apc = "idle"
    /\ batch' = generar_avisos(config, clima, marwis, now)
    /\ apc' = "done"
    /\ UNCHANGED <<config, clima, marwis>>
    /\ UNCHANGED <<isuite_vars, conc_vars, mapeo_vars>>

\* Every snapshot and every content of the sensor file, before the call.
InitAvisos ==
    /\ IsuiteInicial
    /\ env = ConfigKeys
    /\ CatalogoInicial
    /\ clima \in Snapshots
    /\ marwis \in MarwisInputs
    /\ ConcInicial
    /\ MapeoInicial

NextAvisos == GenerarAvisos

SpecAvisos == InitAvisos /\ [][NextAvisos]_vars

-----------------------------------------------------------------------------
(* Callers of generar_avisos that keep the returned batch, change its      *)
(* alerts and call again.                                                  *)

\* The snapshots and sensor contents of these callers.
AliasSnapshots ==
    Examples \cup
    {snapshot(Num(-5), Num(-6), Num(-1), Num(63), Num(20), pronostico(Num(51), Absent)),
     NotADict}

AliasMarwisInputs == {SinMarwis, lectura(<<[channel |-> "surface", value |-> "WET"]>>)}

\* The value a caller writes into a threshold.
ValoresEscritos == {-10}

\* The next call: a new snapshot and sensor content; the caller still holds
\* the batch of the call before.
NuevaLlamada(c, m) ==
    /\ apc = "done"
    /\ clima' = c
    /\ marwis' = m
    /\ apc' = "idle"
    /\ UNCHANGED <<config, batch>>
    /\ UNCHANGED <<isuite_vars, conc_vars, mapeo_vars>>

\* aviso['tareas_procedimiento'] = ... on alert i of the batch, as the
\* endpoint /avisos/generar does: an entry of the alert's own dict.
ModificarCampo(i) ==
    /\ apc = "done"
    /\ i \in DOMAIN batch.avisos_generados
    /\ ~batch.avisos_generados[i].tareas_procedimiento
    /\ batch' = [batch EXCEPT !.avisos_generados[i].tareas_procedimiento = TRUE]
    /\ UNCHANGED <<config, clima, marwis, apc>>
    /\ UNCHANGED <<isuite_vars, conc_vars, mapeo_vars>>

\* aviso['condiciones']['temp_ambiente_max'] = v on alert i of the batch:
\* dict.copy() is shallow, the alert's 'condiciones' is the dict of the
\* catalog entry itself.
ModificarCondiciones(i, v) ==
    /\ apc = "done"
    /\ i \in DOMAIN batch.avisos_generados
    /\ config' = [config EXCEPT
                    ![batch.avisos_generados[i].condiciones_de].condiciones.temp_ambiente_max = v]
    /\ UNCHANGED <<clima, marwis, batch, apc>>
    /\ UNCHANGED <<isuite_vars, conc_vars, mapeo_vars>>

InitAlias ==
    /\ IsuiteInicial
    /\ env = ConfigKeys
    /\ CatalogoInicial
    /\ clima \in AliasSnapshots
    /\ marwis \in AliasMarwisInputs
    /\ ConcInicial
    /\ MapeoInicial

NextAlias ==
    \/ GenerarAvisos
    \/ \E c \in AliasSnapshots, m \in AliasMarwisInputs : NuevaLlamada(c, m)
    \/ \E i \in 1..7 : ModificarCampo(i)
    \/ \E i \in 1..7, v \in ValoresEscritos : ModificarCondiciones(i, v)

SpecAlias == InitAlias /\ [][NextAlias]_vars

-----------------------------------------------------------------------------
(* Concurrent callers of obtener_token_oauth2 and invalidar_token_cache.   *)
(* Neither function takes a lock: a caller runs one statement at a time   *)
(* and the other callers run in between.                                   *)

\* What the concurrent callers leave alone: the clock, the environment and
\* the delivery run.
resto_isuite == <<now, env, pc, aviso, intento, access_token, resultado, posts, log,
                  ret, acquired>>

\* Caller t enters obtener_token_oauth2(force_refresh = f).
LlamarObtenerToken(t, f) ==
    /\ tpc[t] = "idle"
    /\ tpc' = [tpc EXCEPT ![t] = "check"]
    /\ forzado' = [forzado EXCEPT ![t] = f]
    /\ visto' = [visto EXCEPT ![t] = NadaVisto]
    /\ UNCHANGED <<cache, token_data, grants>>
    /\ devuelto' = [devuelto EXCEPT ![t] = SinDevolver]
    /\ UNCHANGED <<resto_isuite, avisos_vars, mapeo_vars>>

\* if not force_refresh and _token_cache.is_valid(): is_valid reads the
\* access token and the expiry.
VerificarCache(t) ==
    /\ tpc[t] = "check"
    /\ IF forzado[t]
       THEN /\ tpc' = [tpc EXCEPT ![t] = "request"]
            /\ UNCHANGED visto
       ELSE /\ visto' = [visto EXCEPT ![t] = par(cache)]
            /\ tpc' = [tpc EXCEPT ![t] = IF is_valid(cache, now) THEN "hit" ELSE "request"]
    /\ UNCHANGED <<cache, forzado, token_data, grants>>
    /\ UNCHANGED devuelto
    /\ UNCHANGED <<resto_isuite, avisos_vars, mapeo_vars>>

\* return _token_cache.access_token
DevolverCache(t) ==
    /\ tpc[t] = "hit"
    /\ tpc' = [tpc EXCEPT ![t] = "idle"]
    /\ UNCHANGED <<cache, forzado, token_data, visto, grants>>
    /\ devuelto' = [devuelto EXCEPT ![t] = cache.access_token]
    /\ UNCHANGED <<resto_isuite, avisos_vars, mapeo_vars>>

\* The token request and its answer resp: the caller raises, or holds the
\* token, the expiry and the token type it will store.
SolicitarToken(t, resp) ==
    /\ tpc[t] = "request"
    /\ LET o == request_token(cache, now, resp) IN
       IF o.exc = None
       THEN /\ token_data' = [token_data EXCEPT ![t] = o.cache]
            /\ grants' = grants \cup {par(o.cache)}
            /\ tpc' = [tpc EXCEPT ![t] = "store_token"]
       ELSE /\ tpc' = [tpc EXCEPT ![t] = "idle"]
            /\ UNCHANGED <<token_data, grants>>
    /\ UNCHANGED <<cache, forzado, visto>>
    /\ UNCHANGED devuelto
    /\ UNCHANGED <<resto_isuite, avisos_vars, mapeo_vars>>

\* _token_cache.access_token = access_token
GuardarToken(t) ==
    /\ tpc[t] = "store_token"
    /\ cache' = [cache EXCEPT !.access_token = token_data[t].access_token]
    /\ tpc' = [tpc EXCEPT ![t] = "store_expiry"]
    /\ UNCHANGED <<forzado, token_data, visto, grants>>
    /\ UNCHANGED devuelto
    /\ UNCHANGED <<resto_isuite, avisos_vars, mapeo_vars>>

\* _token_cache.expires_at = expires_at
GuardarExpiracion(t) ==
    /\ tpc[t] = "store_expiry"
    /\ cache' = [cache EXCEPT !.expires_at = token_data[t].expires_at]
    /\ tpc' = [tpc EXCEPT ![t] = "store_type"]
    /\ UNCHANGED <<forzado, token_data, visto, grants>>
    /\ UNCHANGED devuelto
    /\ UNCHANGED <<resto_isuite, avisos_vars, mapeo_vars>>

\* _token_cache.token_type = ...; return access_token
GuardarTipo(t) ==
    /\ tpc[t] = "store_type"
    /\ cache' = [cache EXCEPT !.token_type = token_data[t].token_type]
    /\ tpc' = [tpc EXCEPT ![t] = "idle"]
    /\ UNCHANGED <<forzado, token_data, visto, grants>>
    /\ devuelto' = [devuelto EXCEPT ![t] = token_data[t].access_token]
    /\ UNCHANGED <<resto_isuite, avisos_vars, mapeo_vars>>

\* Caller t enters invalidar_token_cache.
LlamarInvalidar(t) ==
    /\ tpc[t] = "idle"
    /\ tpc' = [tpc EXCEPT ![t] = "clear_token"]
    /\ visto' = [visto EXCEPT ![t] = NadaVisto]
    /\ UNCHANGED <<cache, forzado, token_data, grants>>
    /\ devuelto' = [devuelto EXCEPT ![t] = SinDevolver]
    /\ UNCHANGED <<resto_isuite, avisos_vars, mapeo_vars>>

\* clear: self.access_token = None
LimpiarToken(t) ==
    /\ tpc[t] = "clear_token"
    /\ cache' = [cache EXCEPT !.access_token = None]
    /\ tpc' = [tpc EXCEPT ![t] = "clear_expiry"]
    /\ UNCHANGED <<forzado, token_data, visto, grants>>
    /\ UNCHANGED devuelto
    /\ UNCHANGED <<resto_isuite, avisos_vars, mapeo_vars>>

\* clear: self.expires_at = 0.0
LimpiarExpiracion(t) ==
    /\ tpc[t] = "clear_expiry"
    /\ cache' = [cache EXCEPT !.expires_at = 0]
    /\ tpc' = [tpc EXCEPT ![t] = "idle"]
    /\ UNCHANGED <<forzado, token_data, visto, grants>>
    /\ UNCHANGED devuelto
    /\ UNCHANGED <<resto_isuite, avisos_vars, mapeo_vars>>

InitConc ==
    /\ IsuiteInicial
    /\ env = ConfigKeys
    /\ CatalogoInicial
    /\ clima = NotADict
    /\ marwis = SinMarwis
    /\ ConcInicial
    /\ MapeoInicial

NextConc ==
    \/ \E t \in Threads, f \in BOOLEAN : LlamarObtenerToken(t, f)
    \/ \E t \in Threads : VerificarCache(t)
    \/ \E t \in Threads : DevolverCache(t)
    \/ \E t \in Threads, resp \in TokenResponses : SolicitarToken(t, resp)
    \/ \E t \in Threads : GuardarToken(t)
    \/ \E t \in Threads : GuardarExpiracion(t)
    \/ \E t \in Threads : GuardarTipo(t)
    \/ \E t \in Threads : LlamarInvalidar(t)
    \/ \E t \in Threads : LimpiarToken(t)
    \/ \E t \in Threads : LimpiarExpiracion(t)

SpecConc == InitConc /\ [][NextConc]_vars

-----------------------------------------------------------------------------
(* mapear_aviso_a_payload_isuite, applied to the batch of the call *)

\* The call: the function reads aviso_json and its alerts and assigns to
\* neither.
MapearAviso ==
    /\ mpc = "idle"
    /\ payload' = mapear_aviso_a_payload_isuite(entrada)
    /\ mpc' = "done"
    /\ UNCHANGED entrada
    /\ UNCHANGED <<isuite_vars, avisos_vars, conc_vars>>

InitMapeo ==
    /\ IsuiteInicial
    /\ env = ConfigKeys
    /\ CatalogoInicial
    /\ clima = NotADict
    /\ marwis = SinMarwis
    /\ ConcInicial
    /\ entrada \in Entradas
    /\ payload = SinPayload
    /\ mpc = "idle"

NextMapeo == MapearAviso

SpecMapeo == InitMapeo /\ [][NextMapeo]_vars

-----------------------------------------------------------------------------
(* Properties *)

Statuses == [i \in 1..Len(posts) |-> posts[i].status]

Count(ev) == Cardinality({i \in 1..Len(log) : log[i] = ev})

Tail4 == IF Len(log) >= 4 THEN SubSeq(log, Len(log) - 3, Len(log)) ELSE <<>>

NonEmptyBatch == aviso \in {"batch", "bad_batch"}

\* C1: a delivery of a non-empty batch whose POSTs were answered 401 and then
\* 200 has invalidated the cache once, re-acquired a token by one forced
\* request, posted twice, in the order POST, invalidate, re-acquire, POST, and
\* returns success = true.
C1_Retry401Then200 ==
    (pc = "done" /\ NonEmptyBatch /\ Statuses = <<401, 200>>) =>
        /\ Count("invalidate") = 1
        /\ Count("req_forced") = 1
        /\ Count("post") = 2
        /\ Tail4 = <<"post", "invalidate", "req_forced", "post">>
        /\ resultado.success

C1_Witness ==
    /\ pc = "done"
    /\ Statuses = <<401, 200>>
    /\ resultado.success
    /\ log = <<"req", "post", "invalidate", "req_forced", "post">>

\* C2: one run issues at most two delivery POSTs; after 401 and 401 it has
\* retried exactly once, ends there and returns success = false.
C2_AtMostTwoPosts ==
    /\ Len(posts) <= 2
    /\ Count("post") = Len(posts)
    /\ Statuses = <<401, 401>> =>
            /\ pc = "done"
            /\ Count("req_forced") = 1
            /\ ~resultado.success

C2_Witness ==
    /\ pc = "done"
    /\ Statuses = <<401, 401>>
    /\ ~resultado.success
    /\ resultado.status_code = 401

\* C3: a second POST is made only after a first POST answered 401; a run
\* whose first POST ended otherwise is over after that one POST, has made no
\* token request after it, and reports that outcome.
C3_RetryOnlyAfter401 ==
    /\ Len(posts) >= 2 => (posts[1].kind = "http" /\ posts[1].status = 401)
    /\ (Len(posts) >= 1 /\ posts[1].status # 401) =>
            /\ pc = "done"
            /\ Len(posts) = 1
            /\ log[Len(log)] = "post"
            /\ Count("req_forced") = 0
            /\ Count("invalidate") = 0
            /\ resultado.status_code = posts[1].status
            /\ resultado.success = (posts[1].status \in {200, 201, 202})

C3_Witness ==
    /\ pc = "done"
    /\ Statuses = <<403>>
    /\ resultado.status_code = 403
    /\ ~resultado.success

\* The status of the last response received in the run (0: none received).
LastStatus ==
    LET got == {i \in 1..Len(posts) : posts[i].kind = "http"} IN
    IF got = {} THEN 0 ELSE posts[CHOOSE i \in got : \A j \in got : j <= i].status

\* C4: a finished delivery of a non-empty batch has success = true exactly
\* when the last response received had status 200, 201 or 202; when the last
\* response had another status, status_code is that status.
C4_SuccessIffLast2xx ==
    (pc = "done" /\ NonEmptyBatch) =>
        /\ resultado.success = (LastStatus \in {200, 201, 202})
        /\ LastStatus # 0 => resultado.status_code = LastStatus

C4_Witness ==
    /\ pc = "done"
    /\ Statuses = <<401, 202>>
    /\ resultado.success
    /\ resultado.status_code = 202

\* C5: a delivery of a batch with an empty alert list is over at once with
\* success = true and has made no token request and no POST, and the step
\* leaves the token cache as it was, whatever the cache and the
\* configuration.
C5_EmptyBatch ==
    [][aviso' = "empty_batch" =>
            /\ pc' = "done"
            /\ resultado'.success
            /\ log' = <<>>
            /\ posts' = <<>>
            /\ cache' = cache]_vars

C5_Witness ==
    /\ pc = "done"
    /\ aviso = "empty_batch"
    /\ env = {}
    /\ is_valid(cache, now)
    /\ resultado.success

\* C6: enviar_aviso_a_isuite never ends by an exception: every run ends by
\* returning resultado.
C6_NeverRaises == pc # "raised"

\* C7: a direct call of obtener_token_oauth2 that finds a valid cached token
\* and has force_refresh = false returns that token, issues no request and
\* leaves the cache as it was; any other call issues a token request when
\* the configuration is complete.
C7_CacheHit ==
    pc = "token_done" =>
        IF ~ret.force /\ is_valid(ret.before, ret.at)
        THEN /\ ret.exc = None
             /\ ret.token = ret.before.access_token
             /\ ret.kind = "none"
             /\ log = <<"hit">>
             /\ cache = ret.before
        ELSE env = ConfigKeys =>
                /\ ret.kind # "none"
                /\ log = <<IF ret.force THEN "req_forced" ELSE "req">>

C7_Witness ==
    /\ pc = "token_done"
    /\ ~ret.force
    /\ is_valid(ret.before, ret.at)
    /\ ret.token = "tokB"
    /\ log = <<"hit">>

\* The cache holds a token.
Held == cache.access_token # None

\* C8: while the cache holds a token granted at time t0 with lifetime n,
\* is_valid is true exactly when now < t0 + n - 60; in particular for
\* n = 3600 the token is valid at t0 and no longer valid from
\* t0 + 3600 - 59 on. A cache that holds no token is not valid.
C8_ValidUntilMargin ==
    /\ Held =>
        /\ acquired # NoAcq
        /\ is_valid(cache, now) = (now < acquired.at + acquired.expires_in - 60)
        /\ (acquired.expires_in = 3600 /\ now = acquired.at) => is_valid(cache, now)
        /\ (acquired.expires_in = 3600 /\ now >= acquired.at + 3600 - 59)
                => ~is_valid(cache, now)
    /\ ~Held => ~is_valid(cache, now)

C8_Witness ==
    /\ Held
    /\ acquired.expires_in = 3600
    /\ now = acquired.at + 3600 - 59
    /\ ~is_valid(cache, now)

\* C9: a direct call of obtener_token_oauth2 that fails raises an error and
\* leaves access_token, expires_at and token_type as they were: missing
\* configuration raises ConfigurationError, and a timeout, a connection
\* failure, a status other than 200 or a response without access_token
\* raises OAuthTokenError.
C9_FailureKeepsCache ==
    pc = "token_done" =>
        /\ ret.exc # None => cache = ret.before
        /\ ret.kind \in {"timeout", "conn", "reqexc", "http", "no_token"}
                => ret.exc = "OAuthTokenError"
        /\ (env # ConfigKeys /\ (ret.force \/ ~is_valid(ret.before, ret.at)))
                => (ret.exc = "ConfigurationError" /\ ret.kind = "none")
        /\ ret.exc = None => (ret.token # None /\ cache.access_token = ret.token)

C9_Witness ==
    /\ pc = "token_done"
    /\ ret.kind = "no_token"
    /\ ret.exc = "OAuthTokenError"
    /\ ret.before.access_token = "tokB"
    /\ ret.before.token_type = "MAC"
    /\ cache = ret.before

\* C10: with one of the four configuration values missing, a delivery of a
\* non-empty batch is over at once with success = false and the
\* configuration-error message, without any token request or POST.
C10_MissingConfig ==
    (NonEmptyBatch /\ env # ConfigKeys) =>
        /\ pc = "done"
        /\ log = <<>>
        /\ posts = <<>>
        /\ ~resultado.success
        /\ resultado.status_code = 0
        /\ resultado.message = "Error de configuracion"

C10_Witness ==
    /\ pc = "done"
    /\ aviso = "batch"
    /\ env = ConfigKeys \ {"iflow_url"}
    /\ is_valid(cache, now)
    /\ resultado.message = "Error de configuracion"

\* C18: when the last delivery POST of a finished run was answered 401, the
\* token cache is cleared when enviar_aviso_a_isuite returns.
C18_ClearedAfterEvery401 ==
    (pc = "done" /\ Len(posts) >= 1 /\ posts[Len(posts)].status = 401)
        => cache.access_token = None

\* A direct call of obtener_token_oauth2 has just acquired a token: it
\* requested one, returned normally, and the clock has not moved since.
JustAcquired ==
    /\ pc = "token_done"
    /\ ret.kind = "ok"
    /\ ret.exc = None
    /\ now = ret.at

\* TRUE when a call without force_refresh would issue no token request,
\* whatever the token endpoint would answer.
NextCallIsHit ==
    \A resp \in TokenResponses :
        LET o == obtener_token_oauth2(cache, now, ConfigKeys, FALSE, resp) IN
        ~o.requested /\ o.exc = None /\ o.token = ret.token

\* C20 as stated: right after a successful acquisition, for any lifetime
\* declared, the cache holds the returned token, is_valid is true and the
\* next call without force_refresh makes no token request.
C20_ValidAfterAnyAcquisition ==
    JustAcquired =>
        /\ cache.access_token = ret.token
        /\ is_valid(cache, now)
        /\ NextCallIsHit

\* C20 amended: right after a successful acquisition the cache holds the
\* returned token; when the declared lifetime exceeds the 60 s safety margin
\* is_valid is true and the next call without force_refresh makes no token
\* request; with a lifetime of 60 s or less is_valid is false.
C20_ValidAfterAcquisition ==
    JustAcquired =>
        /\ cache.access_token = ret.token
        /\ acquired.at = now
        /\ IF acquired.expires_in > 60
           THEN is_valid(cache, now) /\ NextCallIsHit
           ELSE ~is_valid(cache, now)

C20_Witness ==
    /\ JustAcquired
    /\ ret.force
    /\ is_valid(ret.before, ret.at)
    /\ ret.before.access_token # ret.token
    /\ now >= 3539
    /\ acquired.expires_in = 3600
    /\ is_valid(cache, now)

-----------------------------------------------------------------------------
(* Properties of generar_avisos (specification SpecAvisos) *)

\* The identifiers of the alerts of the batch, in its order.
Tipos == [i \in 1..Len(batch.avisos_generados) |-> batch.avisos_generados[i].tipo]

\* The priority ranks of the alerts of the batch, in its order.
Prioridades == [i \in 1..Len(batch.avisos_generados) |-> batch.avisos_generados[i].prioridad]

\* generar_avisos has returned.
Evaluado == apc = "done"

\* C11: for every snapshot (fields missing, null or not numeric, or not a
\* record at all) generar_avisos returns a batch: a list of alerts whose
\* identifiers are among AVISO_0 .. AVISO_6, none of them twice, and
\* total_avisos is the length of the list.
C11_WellFormedBatch ==
    Evaluado =>
        /\ \A i \in DOMAIN Tipos : Tipos[i] \in RuleIds
        /\ \A i, j \in DOMAIN Tipos : i # j => Tipos[i] # Tipos[j]
        /\ batch.total_avisos = Len(batch.avisos_generados)
        /\ batch.total_avisos <= 7

\* A snapshot whose wind is a string: the batch holds the sub-zero alert.
C11_Witness ==
    /\ Evaluado
    /\ clima.viento = Str
    /\ clima.punto_rocio = Absent
    /\ Tipos = <<"AVISO_0">>
    /\ batch.total_avisos = 1

\* Rule id has an alert in the batch.
InBatch(id) == \E i \in DOMAIN Tipos : Tipos[i] = id

\* C12: in every batch generar_avisos returns the alerts stand in the order
\* of their priority rank, rank 0 first: of two consecutive alerts the first
\* has the smaller rank, and the ranks are among 0 .. 6.
C12_SortedByPrioridad ==
    Evaluado =>
        /\ \A i \in DOMAIN Prioridades : Prioridades[i] \in 0..6
        /\ \A i \in 1..(Len(Prioridades) - 1) : Prioridades[i] < Prioridades[i + 1]

\* A batch of four alerts, from the sub-zero alert to the contingency alert.
C12_Witness ==
    /\ Evaluado
    /\ Tipos = <<"AVISO_0", "AVISO_5", "AVISO_3", "AVISO_2">>
    /\ Prioridades = <<0, 2, 4, 5>>

\* The snapshot field f holds a number below n.
NumBelow(f, n) == clima[f].k = "num" /\ clima[f].v < n

\* The snapshot field f holds a number that is at least n.
NumAtLeast(f, n) == clima[f].k = "num" /\ clima[f].v >= n

\* C13: AVISO_0 matches for every snapshot with ambient temperature < 0 and
\* wind < 100, an absent wind counting as 0, whatever dew point, pavement
\* temperature, humidity, forecast and sensor data are; it does not match
\* when the ambient temperature is absent or >= 0.
C13_SubZeroRule ==
    (Evaluado /\ clima.es_dict) =>
        /\ (/\ NumBelow("temperatura_actual", 0)
            /\ (clima.viento = Absent \/ NumBelow("viento", 100)))
               => (evaluar_condiciones_aviso_0(config, clima) /\ InBatch("AVISO_0"))
        /\ (clima.temperatura_actual = Absent \/ NumAtLeast("temperatura_actual", 0))
               => (~evaluar_condiciones_aviso_0(config, clima) /\ ~InBatch("AVISO_0"))

\* Ambient -5 and nothing else usable: no wind, no humidity, no pavement
\* temperature, a dew point that is a string, a null forecast, no sensor file.
C13_Witness ==
    /\ Evaluado
    /\ clima.temperatura_actual = Num(-5)
    /\ clima.viento = Absent
    /\ clima.punto_rocio = Str
    /\ clima.temperatura_pista = Absent
    /\ clima.humedad = Absent
    /\ clima.pronostico = PronosticoNull
    /\ marwis = SinMarwis
    /\ Tipos = <<"AVISO_0">>

\* The numeric snapshot fields the predicate of rule id compares.
campos(id) ==
    IF id = "AVISO_0"
    THEN {"temperatura_actual"}
    ELSE {"temperatura_actual", "punto_rocio", "temperatura_pista", "humedad", "viento"}

\* C14: a rule that compares a numeric field does not match when the field is
\* absent from the snapshot (the wind of AVISO_0 apart); for ambient -5,
\* humidity 90, wind 10, pavement -3 and nothing else the batch is the
\* sub-zero alert alone.
C14_AbsentFieldFailsRule ==
    (Evaluado /\ clima.es_dict) =>
        /\ \A id \in RuleIds : InBatch(id) => \A f \in campos(id) : clima[f] # Absent
        /\ (clima = snapshot(Num(-5), Absent, Num(-3), Num(90), Num(10), SinPronostico))
               => (Tipos = <<"AVISO_0">> /\ batch.total_avisos = 1)

C16_ExactlyTheMatchingRules ==
    Evaluado => \A id \in RuleIds : InBatch(id) <=> evaluar(id, config, clima, marwis)

\* Ambient below zero with the contingency conditions: both alerts.
C16_Witness ==
    /\ Evaluado
    /\ NumBelow("temperatura_actual", 0)
    /\ evaluar_condiciones_aviso_0(config, clima)
    /\ evaluar_condiciones_aviso_2(config, clima)
    /\ InBatch("AVISO_0")
    /\ InBatch("AVISO_2")
    /\ batch.total_avisos = 2

-----------------------------------------------------------------------------
(* Properties of the rule catalog (specification SpecAlias) *)

\* C19: the alerts carry deep copies of the rule metadata: whatever callers
\* write into the alerts they were given (top-level entries or the nested
\* thresholds), the catalog AVISOS_CONFIG, whose thresholds every later
\* evaluation reads, stays as the module defines it.
C19_CatalogUnchanged == config = AVISOS_CONFIG

-----------------------------------------------------------------------------
(* Properties of concurrent callers (specification SpecConc) *)

\* C17: the callers' changes of the token cache are serialized, no caller
\* sees a cache that is updated in part: whenever the validity check of a
\* caller reads a token, it reads with it the expiry of the acquisition that
\* token came from, never the expiry of another acquisition and never a
\* cleared expiry.
C17_NoPartialUpdateSeen ==
    \A t \in Threads : visto[t].access_token # None => visto[t] \in grants

-----------------------------------------------------------------------------
(* Further properties of generar_avisos (specification SpecAvisos) *)

\* C22: an exception raised while one rule is evaluated makes that rule
\* count as not matched and does not stop the evaluation of the others:
\* every rule whose predicate holds is in the batch all the same.
C22_ExceptionIsNoMatch ==
    Evaluado =>
        \A id \in RuleIds :
            /\ cuerpo(id, config, clima, marwis) = "E" => ~InBatch(id)
            /\ cuerpo(id, config, clima, marwis) = "T" => InBatch(id)

\* A wind that is a string: the contingency rule raises on it, the sub-zero
\* rule takes it as 0 and is in the batch.
C22_Witness ==
    /\ Evaluado
    /\ clima.viento = Str
    /\ cuerpo("AVISO_2", config, clima, marwis) = "E"
    /\ cuerpo("AVISO_0", config, clima, marwis) = "T"
    /\ Tipos = <<"AVISO_0">>

\* The sensor file holds a reading the station delivered within the last
\* minutos minutes.
LecturaDentroDe(minutos) ==
    marwis.k = "dict" /\ marwis.measurements # <<>> /\ marwis.edad <= minutos

\* The five conditions AVISO_3 .. AVISO_6 share hold on the snapshot.
CondicionesBase ==
    /\ clima.es_dict
    /\ and_then(<<le(get(clima.temperatura_actual, 999),
                     config["AVISO_3"].condiciones.temp_ambiente_max)>>
                \o comunes(config["AVISO_3"].condiciones, clima)) = "T"

\* C24: AVISO_3 matches only when no reading was received in the last 2
\* hours, AVISO_4 only when a WET or DAMP surface reading was received in
\* the last 15 minutes; a reading older than its window does not block
\* AVISO_3 and does not enable AVISO_4.
C24_SensorWindows ==
    Evaluado =>
        /\ InBatch("AVISO_3") => ~LecturaDentroDe(VentanaSinLectura)
        /\ InBatch("AVISO_4") =>
              (LecturaDentroDe(VentanaSuperficie)
               /\ surface_condition(marwis) \in surface_condition_humeda)
        /\ (CondicionesBase /\ ~LecturaDentroDe(VentanaSinLectura)) => InBatch("AVISO_3")

\* C28: AVISO_1 never matches together with another rule: a batch that holds
\* AVISO_1 holds nothing else.
C28_AlertThresholdAlone ==
    (Evaluado /\ InBatch("AVISO_1")) => (Tipos = <<"AVISO_1">> /\ batch.total_avisos = 1)

\* Ambient 6 with a dew point of 5: AVISO_1 and nothing else.
C28_Witness ==
    /\ Evaluado
    /\ clima.temperatura_actual = Num(6)
    /\ clima.punto_rocio = Num(5)
    /\ Tipos = <<"AVISO_1">>

C30_NeverBothSensorRules ==
    Evaluado => ~(InBatch("AVISO_3") /\ InBatch("AVISO_4"))

\* The base conditions hold: with a wet surface reading AVISO_4 is in the
\* batch, AVISO_3 is not.
C30_Witness ==
    /\ Evaluado
    /\ CondicionesBase
    /\ marwis = lectura(<<[channel |-> "surface", value |-> "WET"]>>)
    /\ InBatch("AVISO_4")
    /\ ~InBatch("AVISO_3")

-----------------------------------------------------------------------------
(* Further properties of concurrent callers (specification SpecConc) *)

\* C25: a call of obtener_token_oauth2 that returns, returns a token, never
\* None, also when another caller invalidates the cache between the validity
\* check and the read of the cached token.
C25_ReturnsAToken ==
    \A t \in Threads : devuelto[t] # SinDevolver => devuelto[t] \in Tokens

-----------------------------------------------------------------------------
(* Further properties of enviar_aviso_a_isuite (specification Spec) *)

\* The run is over: it returned or an exception left it.
Terminado == pc \in {"done", "raised"}

\* The last delivery attempt of the run got no response: timeout, connection
\* failure or another exception of the HTTP client.
FalloDeRed == posts # <<>> /\ posts[Len(posts)].kind # "http"

\* C21: a timeout or connection failure on a delivery attempt, the first or
\* the retry after a 401, ends the run with no further attempt and
\* success = false, and the result carries no HTTP status code.
C21_NetworkFailureTerminal ==
    (Terminado /\ FalloDeRed) =>
        /\ pc = "done"
        /\ ~resultado.success
        /\ resultado.status_code = 0
        /\ \A i \in 1..(Len(posts) - 1) : posts[i].kind = "http"

\* The run ended right after the forced token request that followed a 401.
RenovacionFallida ==
    /\ Terminado
    /\ Len(log) >= 3
    /\ SubSeq(log, Len(log) - 2, Len(log)) = <<"post", "invalidate", "req_forced">>

\* C26: when the first POST is answered 401 and the forced token
\* re-acquisition fails, the run makes no second POST and returns
\* success = false with status_code 401; the token cache is empty.
C26_FailedRefresh ==
    RenovacionFallida =>
        /\ pc = "done"
        /\ ~resultado.success
        /\ resultado.status_code = 401
        /\ Statuses = <<401>>
        /\ cache.access_token = None

\* The run ended on its first token acquisition.
AdquisicionInicialFallida ==
    /\ Terminado
    /\ NonEmptyBatch
    /\ log = <<"req">>
    /\ access_token = None

\* The places of the log where a token was obtained or found in the cache.
Obtenciones == {i \in 1..Len(log) : log[i] \in {"hit", "req", "req_forced"}}

\* C27: in a run every POST comes after a token acquisition or cache hit of
\* the run and carries the token obtained last (the retry that of the forced
\* refresh); when the first acquisition fails the run makes no POST and its
\* result has success = false and no status code; a run makes at most two
\* token requests.
C27_TokenBeforeEveryPost ==
    /\ \A i \in 1..Len(log) : log[i] = "post" => \E j \in Obtenciones : j < i
    /\ \A i \in 1..Len(posts) : posts[i].token \in Tokens
    /\ pc = "post" => (access_token = cache.access_token /\ access_token \in Tokens)
    /\ (Len(posts) = 2 /\ Terminado) => Count("req_forced") = 1
    /\ AdquisicionInicialFallida =>
          (pc = "done" /\ ~resultado.success /\ resultado.status_code = 0 /\ posts = <<>>)
    /\ Count("req") + Count("req_forced") <= 2

-----------------------------------------------------------------------------
(* Properties of mapear_aviso_a_payload_isuite (specification SpecMapeo) *)

\* The alert list of the batch handed to the mapping.
AvisosDeEntrada == IF entrada.tiene_avisos THEN entrada.avisos_generados ELSE <<>>

\* C23: the mapping is a structural transform: the payload's alert list has
\* the length and the order of the batch's, each entry carries the nine
\* routing codes of its alert as they are, the empty string and never null
\* standing for a code the alert lacks, and the batch is left as it was.
C23_StructuralTransform ==
    [][(mpc = "idle" /\ mpc' = "done") =>
          /\ entrada' = entrada
          /\ Len(payload'.avisos) = Len(AvisosDeEntrada)
          /\ \A i \in 1..Len(AvisosDeEntrada) :
                /\ payload'.avisos[i]["tipo_aviso"] = AvisosDeEntrada[i]["tipo"]
                /\ \A c \in Codes :
                      IF AvisosDeEntrada[i][c] = KeyAbsent
                      THEN payload'.avisos[i][c] = ""
                      ELSE payload'.avisos[i][c] = AvisosDeEntrada[i][c]]_vars

\* A batch of two alerts, the first without QMGRP, the second without any
\* code: the payload has both, in that order.
C23_Witness ==
    /\ mpc = "done"
    /\ Len(AvisosDeEntrada) = 2
    /\ AvisosDeEntrada[1] = [aviso_de_catalogo EXCEPT !["QMGRP"] = KeyAbsent]
    /\ AvisosDeEntrada[2] = aviso_sin_codigos
    /\ payload.avisos[1]["QMGRP"] = ""
    /\ payload.avisos[1]["QMCOD"] = "Y110"
    /\ payload.avisos[2]["tipo_aviso"] = "AVISO_0"
    /\ payload.avisos[2]["PRIOK"] = ""

====
